---- MODULE Spec2Model ----
(***************************************************************************)
(* A model of ttkbootstrap/window.py: the Window and Toplevel constructors *)
(* (the calls they forward to the window manager), place_window_center,    *)
(* and the <Configure> class binding _disabled_state_cursor.               *)
(*                                                                         *)
(* Python values: an optional argument is a sequence of length 0 (None) or *)
(* 1 (the value); a string handed to the toolkit is a sequence of          *)
(* one-character strings, so that formatting and parsing are computed.     *)
(***************************************************************************)
EXTENDS Integers, Sequences, FiniteSets, TLC

VARIABLES
    winsys,      \* result of tk.call('tk', 'windowingsystem')
    kind,        \* "Window" or "Toplevel": the class being constructed
    opts,        \* the constructor's keyword arguments
    iconFault,   \* the exception (if any) the icon statements raise
    pc,          \* where the constructor is: start / config / waiting / done / raised
    win,         \* the window-manager state of the window
    todo,        \* calls of the constructor not yet issued (it is in wait_visibility)
    calls,       \* toolkit calls issued by the most recent operation, in order
    defaultIcon, \* the toolkit's icon for toplevels created from now on
    later,       \* a toplevel created after the construction
    bindings,    \* class name -> number of <Configure> bindings of the callback
    style,       \* Window._style: the theme name of the Style created
    remaining,   \* configuration blocks not yet applied (order exploration)
    screen,      \* <<winfo_screenwidth, winfo_screenheight>>
    widgets,     \* widget name -> [class, state, cursor]
    lastEvent,   \* what the most recent run of _disabled_state_cursor did
    reordered    \* a block was applied before one the code puts ahead of it

vars == <<winsys, kind, opts, iconFault, pc, win, todo, calls, defaultIcon,
          later, bindings, style, remaining, screen, widgets, lastEvent,
          reordered>>

\* ------------------------------------------------------------- bounds

\* Largest window width/height and screen width/height explored.
MaxDim == 5
\* Number of entry-like widgets explored.
MaxWidgets == 1

\* ------------------------------------------------------------- values

None == <<>>
Some(v) == <<v>>
IsNone(o) == o = <<>>
Val(o) == o[1]

WinSystems == {"x11", "win32", "aqua"}
Kinds == {"Window", "Toplevel"}

\* ------------------------------------------------------------- strings

DigitChars == <<"0", "1", "2", "3", "4", "5", "6", "7", "8", "9">>

IsDigit(c) == \E i \in 1..10 : DigitChars[i] = c

DigitVal(c) == (CHOOSE i \in 1..10 : DigitChars[i] = c) - 1

RECURSIVE FormatNat(_)
FormatNat(n) ==
    IF n < 10 THEN <<DigitChars[n + 1]>>
    ELSE FormatNat(n \div 10) \o <<DigitChars[(n % 10) + 1]>>

\* str(int) as an f-string field renders it: a minus sign, then the digits.
FormatInt(n) == IF n < 0 THEN <<"-">> \o FormatNat(0 - n) ELSE FormatNat(n)

\* A faulty variant of SizeGeometry: a size string that also names a position.
SizeGeometryWithOrigin(size) ==
    FormatInt(size[1]) \o <<"x">> \o FormatInt(size[2]) \o <<"+", "0", "+", "0">>

\* f"{width}x{height}"
SizeGeometry(size) == FormatInt(size[1]) \o <<"x">> \o FormatInt(size[2])

\* f"+{xpos}+{ypos}"
PositionGeometry(pos) == <<"+">> \o FormatInt(pos[1]) \o <<"+">> \o FormatInt(pos[2])

\* The digits of s from index i on: [val, next], next the first index past them.
RECURSIVE ScanNat(_, _, _)
ScanNat(s, i, acc) ==
    IF i <= Len(s) /\ IsDigit(s[i])
    THEN ScanNat(s, i + 1, acc * 10 + DigitVal(s[i]))
    ELSE [val |-> acc, next |-> i]

\* An integer with an optional sign, as the toolkit reads an offset.
ScanInt(s, i) ==
    IF i <= Len(s) /\ s[i] = "-"
    THEN LET r == ScanNat(s, i + 1, 0)
         IN  [val |-> 0 - r.val, next |-> r.next, ok |-> r.next > i + 1]
    ELSE LET r == ScanNat(s, i, 0)
         IN  [val |-> r.val, next |-> r.next, ok |-> r.next > i]

\* The toolkit's reading of a geometry string "WxH", "+X+Y" or "WxH+X+Y":
\* [ok, size, pos], a part the string does not name being None.
ParseGeometry(s) ==
    LET hasSize == Len(s) >= 1 /\ IsDigit(s[1])
        w  == ScanNat(s, 1, 0)
        h  == ScanNat(s, w.next + 1, 0)
        sizeOk == hasSize => /\ w.next <= Len(s)
                             /\ s[w.next] = "x"
                             /\ h.next > w.next + 1
        p  == IF hasSize /\ sizeOk THEN h.next ELSE 1
        hasPos == p <= Len(s)
        x  == ScanInt(s, p + 1)
        y  == ScanInt(s, x.next + 1)
        posOk == hasPos => /\ s[p] = "+"
                           /\ x.ok
                           /\ x.next <= Len(s)
                           /\ s[x.next] = "+"
                           /\ y.ok
                           /\ y.next = Len(s) + 1
    IN  [ok   |-> sizeOk /\ posOk /\ (hasSize \/ hasPos),
         size |-> IF hasSize /\ sizeOk THEN Some(<<w.val, h.val>>) ELSE None,
         pos  |-> IF hasPos /\ posOk THEN Some(<<x.val, y.val>>) ELSE None]

\* ------------------------------------------------------------- the toolkit

\* A toolkit call as the program issues it.
Call(op, args) == [op |-> op, args |-> args]

\* The calls of log whose operation is op.
CallsOf(log, op) == SelectSeq(log, LAMBDA c : c.op = op)

\* The attributes(...) calls of log that set attribute name.
AttrCalls(log, name) ==
    SelectSeq(log, LAMBDA c : c.op = "attributes" /\ c.args[1] = name)

\* The geometry(...) calls of log whose string names a size / a position.
SizeCalls(log) ==
    SelectSeq(log, LAMBDA c : c.op = "geometry" /\ ~IsNone(ParseGeometry(c.args).size))
PositionCalls(log) ==
    SelectSeq(log, LAMBDA c : c.op = "geometry" /\ ~IsNone(ParseGeometry(c.args).pos))

\* No window yet: the state before super().__init__().
NoWindow ==
    [exists |-> FALSE, title |-> "tk", reqSize |-> None, position |-> None,
     minsize |-> None, maxsize |-> None, resizable |-> None, transient |-> None,
     overrideredirect |-> FALSE, wtype |-> None, topmost |-> FALSE,
     toolwindow |-> FALSE, alpha |-> None, icon |-> "none", visible |-> FALSE,
     size |-> <<1, 1>>, natural |-> <<1, 1>>]

\* super().__init__(): a new, unmapped toplevel with the toolkit's defaults; it
\* carries the icon installed as the default for new toplevels.
CreateWindow(icon, natural) ==
    [NoWindow EXCEPT !.exists = TRUE, !.icon = icon, !.natural = natural]

\* The size the toolkit gives the window when its idle tasks run: the size
\* requested with geometry("WxH"), else the size its content asks for.
Layout(w) == IF IsNone(w.reqSize) THEN w.natural ELSE Val(w.reqSize)

\* geometry(str): only the parts the string names are changed.
ApplyGeometry(w, s) ==
    LET g == ParseGeometry(s)
    IN  IF ~g.ok THEN w
        ELSE [w EXCEPT !.reqSize  = IF IsNone(g.size) THEN @ ELSE g.size,
                       !.position = IF IsNone(g.pos) THEN @ ELSE g.pos]

\* attributes(name, value)
ApplyAttribute(w, name, value) ==
    CASE name = "-alpha"      -> [w EXCEPT !.alpha = Some(value)]
      [] name = "-type"       -> [w EXCEPT !.wtype = Some(value)]
      [] name = "-topmost"    -> [w EXCEPT !.topmost = (value = 1)]
      [] name = "-toolwindow" -> [w EXCEPT !.toolwindow = (value = 1)]
      [] OTHER                -> w

\* The effect of one call on the window.
ApplyCall(w, c) ==
    CASE c.op = "title"            -> [w EXCEPT !.title = c.args[1]]
      [] c.op = "geometry"         -> ApplyGeometry(w, c.args)
      [] c.op = "minsize"          -> [w EXCEPT !.minsize = Some(c.args)]
      [] c.op = "maxsize"          -> [w EXCEPT !.maxsize = Some(c.args)]
      [] c.op = "resizable"        -> [w EXCEPT !.resizable = Some(c.args)]
      [] c.op = "transient"        -> [w EXCEPT !.transient = Some(c.args[1])]
      [] c.op = "overrideredirect" -> [w EXCEPT !.overrideredirect = (c.args[1] = 1)]
      [] c.op = "attributes"       -> ApplyAttribute(w, c.args[1], c.args[2])
      [] OTHER                     -> w

\* A call as the log keeps it: with the window's visibility and requested
\* size when it was issued.
Logged(c, w) == [op |-> c.op, args |-> c.args, vis |-> w.visible, req |-> w.reqSize]

\* Issue the calls cs in order on window w. wait_visibility returns only once
\* the window is visible: on a window not yet visible the run stops there,
\* the calls after it left in todo.
RECURSIVE RunCalls(_, _, _)
RunCalls(w, cs, log) ==
    IF cs = <<>> THEN [win |-> w, log |-> log, todo |-> <<>>, blocked |-> FALSE]
    ELSE LET c == Head(cs)
         IN  IF c.op = "wait_visibility" /\ ~w.visible
             THEN [win |-> w, log |-> Append(log, Logged(c, w)),
                   todo |-> Tail(cs), blocked |-> TRUE]
             ELSE RunCalls(ApplyCall(w, c), Tail(cs), Append(log, Logged(c, w)))

\* ------------------------------------------------------------- the constructors

\* self.title(title)
TitleBlock(o) == <<Call("title", <<o.title>>)>>

\* A faulty variant of SizeBlock: the size is applied whatever the guard says.
SizeBlockUnguarded(o) ==
    <<Call("geometry", SizeGeometry(IF IsNone(o.size) THEN <<1, 1>> ELSE Val(o.size)))>>

\* if size is not None: self.geometry(f"{width}x{height}")
SizeBlock(o) ==
    IF ~IsNone(o.size) THEN <<Call("geometry", SizeGeometry(Val(o.size)))>> ELSE <<>>

\* if position is not None: self.geometry(f"+{xpos}+{ypos}")
PositionBlock(o) ==
    IF ~IsNone(o.position)
    THEN <<Call("geometry", PositionGeometry(Val(o.position)))>> ELSE <<>>

\* if minsize is not None: self.minsize(width, height)
MinsizeBlock(o) ==
    IF ~IsNone(o.minsize) THEN <<Call("minsize", Val(o.minsize))>> ELSE <<>>

\* if maxsize is not None: self.maxsize(width, height)
MaxsizeBlock(o) ==
    IF ~IsNone(o.maxsize) THEN <<Call("maxsize", Val(o.maxsize))>> ELSE <<>>

\* if resizable is not None: self.resizable(width, height)
ResizableBlock(o) ==
    IF ~IsNone(o.resizable) THEN <<Call("resizable", Val(o.resizable))>> ELSE <<>>

\* if transient is not None: self.transient(transient)
TransientBlock(o) ==
    IF ~IsNone(o.transient) THEN <<Call("transient", <<Val(o.transient)>>)>> ELSE <<>>

\* if overrideredirect: self.overrideredirect(1)
OverrideredirectBlock(o) ==
    IF o.overrideredirect THEN <<Call("overrideredirect", <<1>>)>> ELSE <<>>

\* A faulty variant of WindowTypeBlock: the windowing system is not looked at.
WindowTypeBlockAnySystem(o, ws) ==
    IF ~IsNone(o.windowtype)
    THEN <<Call("attributes", <<"-type", Val(o.windowtype)>>)>> ELSE <<>>

\* if windowtype is not None: if winsys == 'x11': self.attributes("-type", windowtype)
WindowTypeBlock(o, ws) ==
    IF ~IsNone(o.windowtype) /\ ws = "x11"
    THEN <<Call("attributes", <<"-type", Val(o.windowtype)>>)>> ELSE <<>>

\* if topmost: self.attributes("-topmost", 1)
TopmostBlock(o) ==
    IF o.topmost THEN <<Call("attributes", <<"-topmost", 1>>)>> ELSE <<>>

\* if toolwindow: if winsys == 'win32': self.attributes("-toolwindow", 1)
ToolwindowBlock(o, ws) ==
    IF o.toolwindow /\ ws = "win32"
    THEN <<Call("attributes", <<"-toolwindow", 1>>)>> ELSE <<>>

\* A faulty variant of AlphaBlock: '-alpha' is set without waiting for visibility.
AlphaBlockNoWait(o, ws) ==
    IF ~IsNone(o.alpha)
    THEN <<Call("attributes", <<"-alpha", Val(o.alpha)>>)>> ELSE <<>>

\* if alpha is not None:
\*     if winsys == 'x11': self.wait_visibility(self)
\*     self.attributes("-alpha", alpha)
AlphaBlock(o, ws) ==
    IF ~IsNone(o.alpha)
    THEN (IF ws = "x11" THEN <<Call("wait_visibility", <<>>)>> ELSE <<>>)
         \o <<Call("attributes", <<"-alpha", Val(o.alpha)>>)>>
    ELSE <<>>

\* The calls of one configuration block of a constructor.
Block(step, o, ws) ==
    CASE step = "title"            -> TitleBlock(o)
      [] step = "size"             -> SizeBlock(o)
      [] step = "position"         -> PositionBlock(o)
      [] step = "minsize"          -> MinsizeBlock(o)
      [] step = "maxsize"          -> MaxsizeBlock(o)
      [] step = "resizable"        -> ResizableBlock(o)
      [] step = "transient"        -> TransientBlock(o)
      [] step = "overrideredirect" -> OverrideredirectBlock(o)
      [] step = "windowtype"       -> WindowTypeBlock(o, ws)
      [] step = "topmost"          -> TopmostBlock(o)
      [] step = "toolwindow"       -> ToolwindowBlock(o, ws)
      [] step = "alpha"            -> AlphaBlock(o, ws)

\* The configuration blocks of Window.__init__, in the order of the code.
WindowSteps ==
    <<"title", "size", "position", "minsize", "maxsize", "resizable",
      "transient", "overrideredirect", "alpha">>

\* The configuration blocks of Toplevel.__init__, in the order of the code.
ToplevelSteps ==
    <<"title", "size", "position", "minsize", "maxsize", "resizable",
      "transient", "overrideredirect", "windowtype", "topmost", "toolwindow",
      "alpha">>

StepsOf(k) == IF k = "Window" THEN WindowSteps ELSE ToplevelSteps

\* The calls of the blocks steps, one block after the other.
RECURSIVE BlockCalls(_, _, _)
BlockCalls(steps, o, ws) ==
    IF steps = <<>> THEN <<>>
    ELSE Block(Head(steps), o, ws) \o BlockCalls(Tail(steps), o, ws)

\* A faulty variant of IconCatches: the icon statements are not in a try at all.
IconCatchesNothing(exc) == FALSE

\* except tkinter.TclError: pass  -- the exceptions Window.__init__ suppresses
\* around the icon statements.
IconCatches(exc) == exc = "TclError"

\* iconphoto(default, image): the window's icon and, with default, the icon of
\* every toplevel created from now on.
ApplyIconphoto(w, dflt, default, img) ==
    [win |-> [w EXCEPT !.icon = img],
     defaultIcon |-> IF default THEN img ELSE dflt]

\* try:
\*     self._icon = iconphoto or tkinter.PhotoImage(data=Icon.icon)
\*     self.iconphoto(True, self._icon)
\* fault says which statement raises (if any): [win, defaultIcon, log, exc].
WindowIcon(o, fault, w, dflt) ==
    LET img == IF ~IsNone(o.iconphoto) THEN Val(o.iconphoto) ELSE "builtin"
        c   == Call("iconphoto", <<TRUE, img>>)
    IN  CASE fault.at = "create" ->
               [win |-> w, defaultIcon |-> dflt, log |-> <<>>, exc |-> fault.exc]
          [] fault.at = "apply" ->
               [win |-> w, defaultIcon |-> dflt, log |-> <<Logged(c, w)>>,
                exc |-> fault.exc]
          [] OTHER ->
               LET r == ApplyIconphoto(w, dflt, TRUE, img)
               IN  [win |-> r.win, defaultIcon |-> r.defaultIcon,
                    log |-> <<Logged(c, w)>>, exc |-> "none"]

\* if iconphoto:
\*     self._icon = iconphoto or tkinter.PhotoImage(data=Icon.icon)
\*     self.iconphoto(False, self._icon)
ToplevelIcon(o, fault, w, dflt) ==
    IF IsNone(o.iconphoto)
    THEN [win |-> w, defaultIcon |-> dflt, log |-> <<>>, exc |-> "none"]
    ELSE LET img == Val(o.iconphoto)
             c   == Call("iconphoto", <<FALSE, img>>)
         IN  IF fault.at = "apply"
             THEN [win |-> w, defaultIcon |-> dflt, log |-> <<Logged(c, w)>>,
                   exc |-> fault.exc]
             ELSE LET r == ApplyIconphoto(w, dflt, FALSE, img)
                  IN  [win |-> r.win, defaultIcon |-> r.defaultIcon,
                       log |-> <<Logged(c, w)>>, exc |-> "none"]

\* The classes _apply_entry_type_class_binding binds <Configure> for.
EntryClasses == <<"TEntry", "TSpinbox", "TCombobox">>

\* _apply_entry_type_class_binding: bind_class(..., add="+") for each class.
BindCalls ==
    [i \in 1..Len(EntryClasses) |-> Call("bind_class", <<EntryClasses[i], "<Configure>">>)]

ApplyEntryTypeClassBinding(b) ==
    [c \in DOMAIN b |->
        IF \E i \in 1..Len(EntryClasses) : EntryClasses[i] = c THEN b[c] + 1 ELSE b[c]]

\* The end of a run of configuration calls r: the constructor blocks in
\* wait_visibility, or goes on to its last statements and returns.
EndOfCalls(r) ==
    /\ win' = r.win
    /\ todo' = r.todo
    /\ IF r.blocked
       THEN /\ pc' = "waiting"
            /\ calls' = r.log
            /\ UNCHANGED <<bindings, style>>
       ELSE /\ pc' = "done"
            /\ IF kind = "Window"
               THEN /\ calls' = r.log
                                \o [i \in 1..Len(BindCalls) |-> Logged(BindCalls[i], r.win)]
                                \o <<Logged(Call("Style", <<opts.themename>>), r.win)>>
                    /\ bindings' = ApplyEntryTypeClassBinding(bindings)
                    /\ style' = Some(opts.themename)
               ELSE /\ calls' = r.log
                    /\ UNCHANGED <<bindings, style>>

\* The size a new window's content asks for.
NaturalSize == <<2, 2>>

\* Window.__init__, up to its return or to wait_visibility.
ConstructWindow ==
    /\ pc = "start"
    /\ kind = "Window"
    /\ LET pre  == (IF opts.hdpi
                    THEN <<Logged(Call("enable_high_dpi_awareness", <<>>), NoWindow)>>
                    ELSE <<>>)
           w0   == CreateWindow(defaultIcon, NaturalSize)
           scal == IF ~IsNone(opts.scaling)
                   THEN <<Logged(Call("enable_high_dpi_awareness", opts.scaling), w0)>>
                   ELSE <<>>
           ic   == WindowIcon(opts, iconFault, w0, defaultIcon)
       IN  /\ defaultIcon' = ic.defaultIcon
           /\ IF ic.exc # "none" /\ ~IconCatches(ic.exc)
              THEN /\ pc' = "raised"
                   /\ win' = ic.win
                   /\ calls' = pre \o scal \o ic.log
                   /\ UNCHANGED <<todo, bindings, style>>
              ELSE EndOfCalls(RunCalls(ic.win, BlockCalls(WindowSteps, opts, winsys),
                                       pre \o scal \o ic.log))
    /\ UNCHANGED <<winsys, kind, opts, iconFault, later, remaining, screen,
                   widgets, lastEvent, reordered>>

\* Toplevel.__init__, up to its return or to wait_visibility.
ConstructToplevel ==
    /\ pc = "start"
    /\ kind = "Toplevel"
    /\ LET w0 == CreateWindow(defaultIcon, NaturalSize)
           ic == ToplevelIcon(opts, iconFault, w0, defaultIcon)
       IN  /\ defaultIcon' = ic.defaultIcon
           /\ IF ic.exc # "none"
              THEN /\ pc' = "raised"
                   /\ win' = ic.win
                   /\ calls' = ic.log
                   /\ UNCHANGED <<todo, bindings, style>>
              ELSE EndOfCalls(RunCalls(ic.win, BlockCalls(ToplevelSteps, opts, winsys),
                                       ic.log))
    /\ UNCHANGED <<winsys, kind, opts, iconFault, later, remaining, screen,
                   widgets, lastEvent, reordered>>

\* The window manager maps the window: it becomes visible, with its size laid out.
BecomeVisible ==
    /\ pc \in {"waiting", "done"}
    /\ win.exists
    /\ ~win.visible
    /\ win' = [win EXCEPT !.visible = TRUE, !.size = Layout(win)]
    /\ UNCHANGED <<winsys, kind, opts, iconFault, pc, todo, calls, defaultIcon,
                   later, bindings, style, remaining, screen, widgets, lastEvent, reordered>>

\* wait_visibility returns: the constructor issues the calls it had left.
ResumeInit ==
    /\ pc = "waiting"
    /\ win.visible
    /\ EndOfCalls(RunCalls(win, todo, calls))
    /\ UNCHANGED <<winsys, kind, opts, iconFault, defaultIcon, later, remaining,
                   screen, widgets, lastEvent, reordered>>

\* A toplevel created by the toolkit after the construction has returned.
CreateLater ==
    /\ pc = "done"
    /\ ~later.exists
    /\ later' = CreateWindow(defaultIcon, NaturalSize)
    /\ UNCHANGED <<winsys, kind, opts, iconFault, pc, win, todo, calls,
                   defaultIcon, bindings, style, remaining, screen, widgets,
                   lastEvent, reordered>>

\* ------------------------------------------------------------- inputs

NoFault == [at |-> "none", exc |-> "none"]

Exceptions == {"TclError", "RuntimeError"}

\* The statements of the icon code that can raise, for the arguments o.
IconFaults(k, o) ==
    {NoFault}
    \cup (IF k = "Window" \/ ~IsNone(o.iconphoto)
          THEN {[at |-> "apply", exc |-> e] : e \in Exceptions} ELSE {})
    \cup (IF k = "Window" /\ IsNone(o.iconphoto)
          THEN {[at |-> "create", exc |-> e] : e \in Exceptions} ELSE {})

\* Keyword arguments both constructors take.
CommonOpts ==
    [title : {"App"},
     iconphoto : {None, Some("img")},
     size : {None, Some(<<3, 2>>)},
     position : {None, Some(<<1, 2>>)},
     minsize : {None, Some(<<1, 1>>)},
     maxsize : {None, Some(<<4, 4>>)},
     resizable : {None, Some(<<FALSE, TRUE>>)},
     transient : {None, Some("master")},
     overrideredirect : BOOLEAN,
     alpha : {None, Some(0), Some(100)}]

\* Keyword arguments of Window only (the others at their value for Window).
WindowOnly ==
    [themename : {"litera"}, hdpi : BOOLEAN, scaling : {None, Some(2)},
     windowtype : {None}, topmost : {FALSE}, toolwindow : {FALSE}]

\* Keyword arguments of Toplevel only.
ToplevelOnly ==
    [themename : {""}, hdpi : {FALSE}, scaling : {None},
     windowtype : {None, Some("dock")}, topmost : BOOLEAN, toolwindow : BOOLEAN]

OptsOf(k) ==
    {c @@ x : c \in CommonOpts, x \in (IF k = "Window" THEN WindowOnly ELSE ToplevelOnly)}

WidgetNames == 1..MaxWidgets

NoEvent ==
    [widget |-> 0, class |-> "", state |-> "", before |-> "", after |-> "",
     fault |-> "none", raised |-> FALSE, wrote |-> FALSE]

\* What the constructor specifications leave alone.
InitRest ==
    /\ pc = "start"
    /\ win = NoWindow
    /\ todo = <<>>
    /\ calls = <<>>
    /\ defaultIcon = "none"
    /\ later = NoWindow
    /\ bindings = [c \in {"TEntry", "TSpinbox", "TCombobox", "TButton"} |-> 0]
    /\ style = None
    /\ remaining = {}
    /\ screen = <<MaxDim, MaxDim>>
    /\ widgets = [n \in WidgetNames |-> [class |-> "TEntry", state |-> "normal", cursor |-> ""]]
    /\ lastEvent = NoEvent
    /\ reordered = FALSE

Init ==
    /\ winsys \in WinSystems
    /\ kind \in Kinds
    /\ opts \in OptsOf(kind)
    /\ iconFault \in IconFaults(kind, opts)
    /\ InitRest

Next ==
    \/ ConstructWindow
    \/ ConstructToplevel
    \/ BecomeVisible
    \/ ResumeInit
    \/ CreateLater

Spec == Init /\ [][Next]_vars

\* ------------------------------------------------------------- constructor claims

\* 1 when the guard holds, else 0: the number of times a guarded call is issued.
Once(guard) == IF guard THEN 1 ELSE 0

AllBound(b) == \A i \in 1..Len(EntryClasses) : b[EntryClasses[i]] >= 1

\* C3: when a constructor has returned, each optional call was issued once if
\* its guard holds and not at all otherwise (size, position, minsize, maxsize,
\* resizable, transient, alpha: not None; overrideredirect, topmost: truthy), a
\* guard that fails leaves the attribute at the toolkit's default, and the
\* title was set (once) whatever the options.
C3_GuardedCalls ==
    pc = "done" =>
        /\ Len(CallsOf(calls, "title")) = 1
        /\ win.title = opts.title
        /\ Len(SizeCalls(calls)) = Once(~IsNone(opts.size))
        /\ Len(PositionCalls(calls)) = Once(~IsNone(opts.position))
        /\ Len(CallsOf(calls, "geometry"))
             = Once(~IsNone(opts.size)) + Once(~IsNone(opts.position))
        /\ Len(CallsOf(calls, "minsize")) = Once(~IsNone(opts.minsize))
        /\ Len(CallsOf(calls, "maxsize")) = Once(~IsNone(opts.maxsize))
        /\ Len(CallsOf(calls, "resizable")) = Once(~IsNone(opts.resizable))
        /\ Len(CallsOf(calls, "transient")) = Once(~IsNone(opts.transient))
        /\ Len(AttrCalls(calls, "-alpha")) = Once(~IsNone(opts.alpha))
        /\ Len(CallsOf(calls, "overrideredirect")) = Once(opts.overrideredirect)
        /\ Len(AttrCalls(calls, "-topmost")) = Once(kind = "Toplevel" /\ opts.topmost)
        /\ win.reqSize = opts.size
        /\ win.position = opts.position
        /\ win.minsize = opts.minsize
        /\ win.maxsize = opts.maxsize
        /\ win.resizable = opts.resizable
        /\ win.transient = opts.transient
        /\ win.alpha = opts.alpha
        /\ win.overrideredirect = opts.overrideredirect
        /\ win.topmost = opts.topmost

\* A constructor has returned for arguments whose guards differ: a falsy alpha
\* that is not None (applied), overrideredirect False (not applied), no size.
C3_Witness ==
    /\ pc = "done"
    /\ opts.alpha = Some(0)
    /\ win.alpha = Some(0)
    /\ ~opts.overrideredirect
    /\ IsNone(opts.size)
    /\ ~IsNone(opts.position)
    /\ kind = "Toplevel"
    /\ opts.topmost

\* C4 as stated: whatever exception the icon statements of Window.__init__
\* raise, the constructor does not raise and goes on to the title, the
\* bindings and the Style.
C4_AnyIconExceptionSuppressed ==
    (kind = "Window" /\ iconFault.exc # "none") =>
        /\ pc # "raised"
        /\ pc = "done" => (win.title = opts.title /\ AllBound(bindings)
                           /\ style = Some(opts.themename))

\* C4 amended: a tkinter.TclError raised by the icon statements of
\* Window.__init__ is suppressed: the constructor does not raise, and when it
\* has returned the title is set, the entry-class bindings are registered and
\* the Style is created; the icon is the one the window was created with.
C4_TclErrorSuppressed ==
    (kind = "Window" /\ iconFault.exc = "TclError") =>
        /\ pc # "raised"
        /\ pc = "done" =>
             /\ win.title = opts.title
             /\ win.reqSize = opts.size
             /\ win.alpha = opts.alpha
             /\ AllBound(bindings)
             /\ Len(CallsOf(calls, "bind_class")) = Len(EntryClasses)
             /\ style = Some(opts.themename)
             /\ win.icon = "none"

\* Window.__init__ has returned although its icon statements raised TclError.
C4_Witness ==
    /\ kind = "Window"
    /\ iconFault.exc = "TclError"
    /\ iconFault.at = "apply"
    /\ pc = "done"
    /\ ~IsNone(opts.size)

\* C6 as stated: the iconphoto passed to Toplevel is the icon of that window
\* and of every toplevel created afterwards; without an iconphoto Toplevel
\* makes no icon call.
C6_ToplevelIconForFutureToplevels ==
    (kind = "Toplevel" /\ pc = "done") =>
        /\ ~IsNone(opts.iconphoto) =>
             /\ win.icon = Val(opts.iconphoto)
             /\ later.exists => later.icon = Val(opts.iconphoto)
        /\ IsNone(opts.iconphoto) => CallsOf(calls, "iconphoto") = <<>>

\* C8: when Toplevel.__init__ has returned, '-type' was set iff windowtype is
\* not None and the windowing system is x11, '-toolwindow' iff toolwindow is
\* truthy and the windowing system is win32, and '-topmost' and '-alpha' by
\* their guards alone, on every windowing system; the platform options never
\* make the constructor raise.
C8_PlatformAttributes ==
    kind = "Toplevel" =>
        /\ pc = "raised" => iconFault.exc # "none"
        /\ pc = "done" =>
             /\ Len(AttrCalls(calls, "-type"))
                  = Once(~IsNone(opts.windowtype) /\ winsys = "x11")
             /\ Len(AttrCalls(calls, "-toolwindow"))
                  = Once(opts.toolwindow /\ winsys = "win32")
             /\ Len(AttrCalls(calls, "-topmost")) = Once(opts.topmost)
             /\ Len(AttrCalls(calls, "-alpha")) = Once(~IsNone(opts.alpha))
             /\ Len(CallsOf(calls, "attributes"))
                  = Once(~IsNone(opts.windowtype) /\ winsys = "x11")
                    + Once(opts.toolwindow /\ winsys = "win32")
                    + Once(opts.topmost) + Once(~IsNone(opts.alpha))
             /\ win.wtype = (IF winsys = "x11" THEN opts.windowtype ELSE None)
             /\ win.toolwindow = (opts.toolwindow /\ winsys = "win32")

\* Toplevel.__init__ has returned on a system that is neither x11 nor win32,
\* with windowtype, toolwindow, topmost and alpha all given.
C8_Witness ==
    /\ kind = "Toplevel"
    /\ pc = "done"
    /\ winsys = "aqua"
    /\ ~IsNone(opts.windowtype)
    /\ opts.toolwindow
    /\ opts.topmost
    /\ win.topmost
    /\ ~IsNone(win.alpha)

\* The index of the first call of log that sets attribute name (0: none).
AttrIndex(log, name) ==
    IF \E i \in 1..Len(log) : log[i].op = "attributes" /\ log[i].args[1] = name
    THEN CHOOSE i \in 1..Len(log) :
            /\ log[i].op = "attributes" /\ log[i].args[1] = name
            /\ \A j \in 1..(i - 1) : ~(log[j].op = "attributes" /\ log[j].args[1] = name)
    ELSE 0

\* C10: on x11 every '-alpha' call is issued on a visible window, right after
\* a wait_visibility call, and a constructor given an alpha has not returned
\* (it is waiting) while the window is not visible; on the other systems no
\* wait_visibility is issued and the constructor never waits; in both, no
\* window-manager configuration call follows the '-alpha' call.
C10_AlphaAfterVisibility ==
    LET a == AttrIndex(calls, "-alpha")
    IN  /\ (winsys = "x11" /\ a > 0) =>
              /\ calls[a].vis
              /\ a > 1
              /\ calls[a - 1].op = "wait_visibility"
        /\ (winsys = "x11" /\ ~IsNone(opts.alpha) /\ pc = "done") => win.visible
        /\ (winsys = "x11" /\ ~IsNone(opts.alpha) /\ win.exists /\ ~win.visible)
              => pc \in {"waiting", "raised"}
        /\ winsys # "x11" => (pc # "waiting" /\ CallsOf(calls, "wait_visibility") = <<>>)
        /\ IsNone(opts.alpha) => (pc # "waiting" /\ CallsOf(calls, "wait_visibility") = <<>>)
        /\ a > 0 => \A i \in (a + 1)..Len(calls) : calls[i].op \in {"bind_class", "Style"}
        /\ (pc = "done" /\ ~IsNone(opts.alpha)) => a > 0

\* A constructor on x11 has waited, the window became visible, and '-alpha'
\* was set after the other configuration calls.
C10_Witness ==
    /\ winsys = "x11"
    /\ pc = "done"
    /\ opts.alpha = Some(100)
    /\ win.alpha = Some(100)
    /\ opts.overrideredirect
    /\ kind = "Window"
    /\ AttrIndex(calls, "-alpha") > 1

\* ------------------------------------------------------------- any order

\* The window-manager configuration of a window: what the constructor's calls
\* set (its visibility and current size are the window manager's doing).
Config(w) == [w EXCEPT !.visible = FALSE, !.size = <<1, 1>>]

\* The calls cs issued to the end, wait_visibility returning once the window
\* manager has mapped the window.
RECURSIVE RunToEnd(_, _)
RunToEnd(w, cs) ==
    IF cs = <<>> THEN w
    ELSE LET c == Head(cs)
         IN  IF c.op = "wait_visibility" /\ ~w.visible
             THEN RunToEnd([w EXCEPT !.visible = TRUE, !.size = Layout(w)], Tail(cs))
             ELSE RunToEnd(ApplyCall(w, c), Tail(cs))

\* The window as the constructor of class k configures it, block after block
\* in the order of the code.
CtorFinal(k, o, ws, w) == RunToEnd(w, BlockCalls(StepsOf(k), o, ws))

\* The window a constructor starts to configure: created, its icon set.
StartWindow(k, o, dflt) ==
    LET w0 == CreateWindow(dflt, NaturalSize)
    IN  IF k = "Window" THEN WindowIcon(o, NoFault, w0, dflt).win
        ELSE ToplevelIcon(o, NoFault, w0, dflt).win

\* The position of step in the constructor of class k.
StepIndex(k, step) == CHOOSE i \in 1..Len(StepsOf(k)) : StepsOf(k)[i] = step

\* The constructor creates the window; the configuration blocks that issue
\* calls for its arguments are all to do.
OrderStart ==
    /\ pc = "start"
    /\ win' = StartWindow(kind, opts, defaultIcon)
    /\ remaining' = {st \in {StepsOf(kind)[i] : i \in 1..Len(StepsOf(kind))} :
                         Block(st, opts, winsys) # <<>>}
    /\ pc' = "config"
    /\ UNCHANGED <<winsys, kind, opts, iconFault, todo, calls, defaultIcon, later,
                   bindings, style, screen, widgets, lastEvent, reordered>>

\* The end of a block's calls r, the blocks left being left.
EndOfBlock(r, left) ==
    /\ win' = r.win
    /\ todo' = r.todo
    /\ pc' = IF r.blocked THEN "waiting" ELSE IF left = {} THEN "done" ELSE "config"

\* One of the blocks still to do is applied, whichever.
OrderApply ==
    /\ pc = "config"
    /\ \E st \in remaining :
          /\ remaining' = remaining \ {st}
          /\ reordered' = (reordered \/ \E other \in remaining :
                                           StepIndex(kind, other) < StepIndex(kind, st))
          /\ EndOfBlock(RunCalls(win, Block(st, opts, winsys), <<>>), remaining \ {st})
    /\ UNCHANGED <<winsys, kind, opts, iconFault, calls, defaultIcon, later,
                   bindings, style, screen, widgets, lastEvent>>

\* wait_visibility returns: the block it belongs to is completed.
OrderResume ==
    /\ pc = "waiting"
    /\ win.visible
    /\ EndOfBlock(RunCalls(win, todo, <<>>), remaining)
    /\ UNCHANGED <<winsys, kind, opts, iconFault, calls, defaultIcon, later,
                   bindings, style, remaining, screen, widgets, lastEvent,
                   reordered>>

\* The arguments explored: every combination of size, position,
\* overrideredirect, windowtype, topmost, toolwindow and alpha, with minsize,
\* maxsize, resizable and transient given together or not at all.
InitOrder ==
    /\ winsys \in WinSystems
    /\ kind \in Kinds
    /\ opts \in {o \in OptsOf(kind) :
                    /\ IsNone(o.iconphoto) /\ ~o.hdpi /\ IsNone(o.scaling)
                    /\ o.alpha # Some(0)
                    /\ IsNone(o.minsize) = IsNone(o.maxsize)
                    /\ IsNone(o.minsize) = IsNone(o.resizable)
                    /\ IsNone(o.minsize) = IsNone(o.transient)}
    /\ iconFault = NoFault
    /\ InitRest

NextOrder ==
    \/ OrderStart
    \/ OrderApply
    \/ BecomeVisible
    \/ OrderResume

SpecOrder == InitOrder /\ [][NextOrder]_vars

\* C2: whatever the order in which the guarded configuration blocks of a
\* constructor are applied, once all are applied the window's configuration
\* is the one the constructor's own order produces.
C2_OrderInsensitive ==
    pc = "done" =>
        Config(win) = Config(CtorFinal(kind, opts, winsys,
                                       StartWindow(kind, opts, defaultIcon)))

\* All blocks were applied in an order that is not the constructor's, for
\* arguments that make the size, position and alpha blocks issue calls on x11.
C2_Witness ==
    /\ pc = "done"
    /\ reordered
    /\ winsys = "x11"
    /\ ~IsNone(opts.size)
    /\ ~IsNone(opts.position)
    /\ ~IsNone(opts.alpha)
    /\ win.position = opts.position
    /\ win.reqSize = opts.size

\* ------------------------------------------------------------- place_window_center

\* A faulty variant of CenterOffset: division that rounds toward zero.
CenterOffsetTruncated(s, w) ==
    IF s - w >= 0 THEN (s - w) \div 2 ELSE 0 - ((w - s) \div 2)

\* (s_width - w_width) // 2
CenterOffset(s, w) == (s - w) \div 2

\* self.update_idletasks(): the pending layout is carried out.
UpdateIdletasks(w) == [w EXCEPT !.size = Layout(w)]

\* The statements of place_window_center after update_idletasks, w1 being
\* the window then: the four queries, the offsets, the geometry call.
CenterAfterFlush(w, w1, scr) ==
    LET w_height == w1.size[2]
        w_width  == w1.size[1]
        s_height == scr[2]
        s_width  == scr[1]
        xpos == CenterOffset(s_width, w_width)
        ypos == CenterOffset(s_height, w_height)
    IN  [win |-> ApplyGeometry(w1, PositionGeometry(<<xpos, ypos>>)),
         log |-> <<Logged(Call("update_idletasks", <<>>), w),
                   Logged(Call("winfo_height", <<w_height>>), w1),
                   Logged(Call("winfo_width", <<w_width>>), w1),
                   Logged(Call("winfo_screenheight", <<s_height>>), w1),
                   Logged(Call("winfo_screenwidth", <<s_width>>), w1),
                   Logged(Call("geometry", PositionGeometry(<<xpos, ypos>>)), w1)>>]

\* place_window_center (Window and Toplevel hold the same statements, and
\* position_center is the same function): [win, log].
PlaceWindowCenter(w, scr) == CenterAfterFlush(w, UpdateIdletasks(w), scr)

\* Window.place_window_center()
WindowPlaceWindowCenter ==
    /\ pc = "done"
    /\ kind = "Window"
    /\ LET r == PlaceWindowCenter(win, screen)
       IN  win' = r.win /\ calls' = r.log
    /\ UNCHANGED <<winsys, kind, opts, iconFault, pc, todo, defaultIcon, later,
                   bindings, style, remaining, screen, widgets, lastEvent,
                   reordered>>

\* Toplevel.place_window_center()
ToplevelPlaceWindowCenter ==
    /\ pc = "done"
    /\ kind = "Toplevel"
    /\ LET r == PlaceWindowCenter(win, screen)
       IN  win' = r.win /\ calls' = r.log
    /\ UNCHANGED <<winsys, kind, opts, iconFault, pc, todo, defaultIcon, later,
                   bindings, style, remaining, screen, widgets, lastEvent,
                   reordered>>

\* The window sizes explored.
Dims == {<<d, MaxDim + 1 - d>> : d \in 1..MaxDim}

\* The screen sizes explored: one smaller than the largest window.
ScreenSizes == {<<MaxDim - 1, MaxDim - 2>>, <<MaxDim + 1, MaxDim + 2>>}

\* The program asks for a new size, geometry(f"{w}x{h}"): the window has it
\* once the idle tasks have run.
RequestSize ==
    /\ pc = "done"
    /\ \E d \in Dims :
          LET g == Call("geometry", SizeGeometry(d))
          IN  win' = ApplyCall(win, g) /\ calls' = <<Logged(g, win)>>
    /\ UNCHANGED <<winsys, kind, opts, iconFault, pc, todo, defaultIcon, later,
                   bindings, style, remaining, screen, widgets, lastEvent,
                   reordered>>

\* The event loop runs the pending idle tasks.
RunIdleTasks ==
    /\ pc = "done"
    /\ win.size # Layout(win)
    /\ win' = [win EXCEPT !.size = Layout(win)]
    /\ calls' = <<>>
    /\ UNCHANGED <<winsys, kind, opts, iconFault, pc, todo, defaultIcon, later,
                   bindings, style, remaining, screen, widgets, lastEvent,
                   reordered>>

\* A default-argument construction (title only) has returned on a system
\* that does not wait, some size having been asked for or not; the window has
\* not been laid out yet.
InitCenter ==
    /\ winsys \in {"win32", "aqua"}
    /\ kind \in Kinds
    /\ opts \in {o \in OptsOf(kind) :
                    /\ IsNone(o.iconphoto) /\ ~o.hdpi /\ IsNone(o.scaling)
                    /\ IsNone(o.position) /\ IsNone(o.minsize) /\ IsNone(o.maxsize)
                    /\ IsNone(o.resizable) /\ IsNone(o.transient)
                    /\ ~o.overrideredirect /\ IsNone(o.windowtype) /\ ~o.topmost
                    /\ ~o.toolwindow /\ IsNone(o.alpha)}
    /\ iconFault = NoFault
    /\ pc = "done"
    /\ win = CtorFinal(kind, opts, winsys, StartWindow(kind, opts, "none"))
    /\ todo = <<>>
    /\ calls = <<>>
    /\ defaultIcon = (IF kind = "Window" THEN "builtin" ELSE "none")
    /\ later = NoWindow
    /\ bindings = [c \in {"TEntry", "TSpinbox", "TCombobox", "TButton"} |->
                      IF kind = "Window" /\ c # "TButton" THEN 1 ELSE 0]
    /\ style = (IF kind = "Window" THEN Some(opts.themename) ELSE None)
    /\ remaining = {}
    /\ screen \in ScreenSizes
    /\ widgets = [n \in WidgetNames |-> [class |-> "TEntry", state |-> "normal", cursor |-> ""]]
    /\ lastEvent = NoEvent
    /\ reordered = FALSE

NextCenter ==
    \/ WindowPlaceWindowCenter
    \/ ToplevelPlaceWindowCenter
    \/ RequestSize
    \/ RunIdleTasks

SpecCenter == InitCenter /\ [][NextCenter]_vars

\* The last operation was place_window_center.
Centered == Len(calls) > 0 /\ calls[Len(calls)].op = "geometry" /\ Len(calls) > 1

\* C1: after place_window_center (of either class) the window has the size
\* its idle tasks give it, that size and the screen's are the ones queried,
\* exactly one geometry update was issued, its string names a position and no
\* size, the position is <<xpos, ypos>> with xpos the floor of (screen width -
\* window width) / 2 and ypos the floor of (screen height - window height) / 2,
\* and the requested width and height are what they were.
C1_PlaceWindowCenter ==
    Centered =>
        LET geo == CallsOf(calls, "geometry")
            g   == ParseGeometry(geo[1].args)
            ww  == CallsOf(calls, "winfo_width")[1].args[1]
            wh  == CallsOf(calls, "winfo_height")[1].args[1]
            sw  == CallsOf(calls, "winfo_screenwidth")[1].args[1]
            sh  == CallsOf(calls, "winfo_screenheight")[1].args[1]
        IN  /\ calls[1].op = "update_idletasks"
            /\ win.size = Layout(win)
            /\ Layout(win) = <<ww, wh>>
            /\ <<sw, sh>> = screen
            /\ Len(geo) = 1
            /\ g.ok
            /\ IsNone(g.size)
            /\ ~IsNone(g.pos)
            /\ win.position = g.pos
            /\ 2 * Val(g.pos)[1] <= sw - ww
            /\ sw - ww < 2 * Val(g.pos)[1] + 2
            /\ 2 * Val(g.pos)[2] <= sh - wh
            /\ sh - wh < 2 * Val(g.pos)[2] + 2
            /\ win.reqSize = calls[1].req

\* A window wider than the screen by an odd amount was centered: the offset
\* is negative and rounded down.
C1_Witness ==
    /\ Centered
    /\ ~IsNone(win.position)
    /\ Val(win.position)[1] < 0
    /\ (win.size[1] - screen[1]) % 2 = 1
    /\ ~IsNone(win.reqSize)
    /\ kind = "Toplevel"

\* ------------------------------------------------------------- _disabled_state_cursor

States == {"normal", "disabled", "readonly"}
Cursors == {"", "ibeam", "arrow", "hand2"}
Classes == {"TEntry", "TSpinbox", "TCombobox", "TButton"}

\* The statement of the callback that raises (if any), and what it raises:
\* nametowidget raises KeyError for a name it does not know, the option
\* reads and the option write raise TclError.
CursorFaults == {"none", "resolve", "state", "cursor", "write"}
FaultException(fault) ==
    CASE fault = "none" -> "none"
      [] fault = "resolve" -> "KeyError"
      [] OTHER -> "TclError"

\* A faulty variant of CallbackCatches: except tkinter.TclError instead of except.
CallbackCatchesTclError(exc) == exc = "TclError"

\* except: pass  -- the exceptions _disabled_state_cursor suppresses.
CallbackCatches(exc) == TRUE

\* A faulty variant of ArrowStates: readonly is forgotten.
ArrowStatesDisabledOnly == {"disabled"}

\* state in (DISABLED, READONLY)
ArrowStates == {"disabled", "readonly"}

\* cursor in ('ibeam', '')
TextCursors == {"ibeam", ""}

\* widget['cursor'] = value, which is widget.configure({'cursor': value}):
\* tkinter passes the toolkit the options whose value is not None, so a value
\* of None configures nothing and the option keeps its value.
SetCursorItem(cur, value) == IF IsNone(value) THEN cur ELSE Val(value)

\* The body of the try of _disabled_state_cursor for widget w, fault being
\* the statement that raises: [cursor, wrote, exc], cursor the widget's
\* cursor afterwards, wrote whether an assignment to it was reached.
DisabledStateCursorBody(w, fault) ==
    LET state  == w.state
        cursor == w.cursor
        quit(exc) == [cursor |-> w.cursor, wrote |-> FALSE, exc |-> exc]
    IN  IF fault \in {"resolve", "state", "cursor"} THEN quit(FaultException(fault))
        ELSE IF state \in ArrowStates
        THEN IF cursor = "arrow" THEN quit("none")
             ELSE IF fault = "write"
                  THEN [cursor |-> w.cursor, wrote |-> TRUE, exc |-> FaultException(fault)]
                  ELSE [cursor |-> SetCursorItem(w.cursor, Some("arrow")),
                        wrote |-> TRUE, exc |-> "none"]
        ELSE IF cursor \in TextCursors THEN quit("none")
             ELSE IF fault = "write"
                  THEN [cursor |-> w.cursor, wrote |-> TRUE, exc |-> FaultException(fault)]
                  ELSE [cursor |-> SetCursorItem(w.cursor, None),
                        wrote |-> TRUE, exc |-> "none"]

\* A <Configure> event of widget n is dispatched to _disabled_state_cursor,
\* which is bound for the widget's class.
DisabledStateCursor ==
    \E n \in WidgetNames, fault \in CursorFaults :
        /\ bindings[widgets[n].class] >= 1
        /\ LET r == DisabledStateCursorBody(widgets[n], fault)
           IN  /\ widgets' = [widgets EXCEPT ![n].cursor = r.cursor]
               /\ lastEvent' = [widget |-> n, class |-> widgets[n].class,
                                state |-> widgets[n].state,
                                before |-> widgets[n].cursor, after |-> r.cursor,
                                fault |-> fault,
                                raised |-> (r.exc # "none" /\ ~CallbackCatches(r.exc)),
                                wrote |-> r.wrote]
        /\ UNCHANGED <<winsys, kind, opts, iconFault, pc, win, todo, calls,
                       defaultIcon, later, bindings, style, remaining, screen,
                       reordered>>

\* The program changes a widget's state.
SetState ==
    \E n \in WidgetNames, st \in States :
        /\ widgets[n].state # st
        /\ widgets' = [widgets EXCEPT ![n].state = st]
        /\ UNCHANGED <<winsys, kind, opts, iconFault, pc, win, todo, calls,
                       defaultIcon, later, bindings, style, remaining, screen,
                       lastEvent, reordered>>

\* The program gives a widget a cursor.
SetCursor ==
    \E n \in WidgetNames, c \in Cursors :
        /\ widgets[n].cursor # c
        /\ widgets' = [widgets EXCEPT ![n].cursor = c]
        /\ UNCHANGED <<winsys, kind, opts, iconFault, pc, win, todo, calls,
                       defaultIcon, later, bindings, style, remaining, screen,
                       lastEvent, reordered>>

\* A Window constructed with default arguments (its bindings registered), and
\* widgets of any class in their initial state.
InitCursor ==
    /\ winsys = "win32"
    /\ kind = "Window"
    /\ opts \in {o \in OptsOf(kind) :
                    /\ IsNone(o.iconphoto) /\ o.hdpi /\ IsNone(o.scaling)
                    /\ IsNone(o.size) /\ IsNone(o.position) /\ IsNone(o.minsize)
                    /\ IsNone(o.maxsize) /\ IsNone(o.resizable) /\ IsNone(o.transient)
                    /\ ~o.overrideredirect /\ o.alpha = Some(100)}
    /\ iconFault = NoFault
    /\ pc = "done"
    /\ win = CtorFinal(kind, opts, winsys, StartWindow(kind, opts, "none"))
    /\ todo = <<>>
    /\ calls = <<>>
    /\ defaultIcon = "builtin"
    /\ later = NoWindow
    /\ bindings = ApplyEntryTypeClassBinding([c \in Classes |-> 0])
    /\ style = Some(opts.themename)
    /\ remaining = {}
    /\ screen = <<MaxDim, MaxDim>>
    /\ widgets \in [WidgetNames -> {[class |-> c, state |-> "normal", cursor |-> ""] :
                                        c \in Classes}]
    /\ lastEvent = NoEvent
    /\ reordered = FALSE

NextCursor ==
    \/ DisabledStateCursor
    \/ SetState
    \/ SetCursor

SpecCursor == InitCursor /\ [][NextCursor]_vars

\* C5: no run of _disabled_state_cursor raises, and a run in which resolving
\* the widget, reading its state or cursor, or writing its cursor failed
\* leaves the widget's cursor as it was.
C5_CallbackNeverRaises ==
    lastEvent.widget # 0 =>
        /\ ~lastEvent.raised
        /\ lastEvent.fault # "none" => lastEvent.after = lastEvent.before

\* The write of 'arrow' to a disabled widget with an ibeam cursor failed and
\* the callback returned normally.
C5_Witness ==
    /\ lastEvent.widget # 0
    /\ lastEvent.fault = "write"
    /\ lastEvent.wrote
    /\ lastEvent.state = "disabled"
    /\ lastEvent.before = "ibeam"
    /\ ~lastEvent.raised

C9_DefaultWhenEnabled ==
    (lastEvent.widget # 0 /\ ~lastEvent.raised /\ lastEvent.fault = "none"
       /\ lastEvent.state \notin {"disabled", "readonly"}) =>
        lastEvent.after \in {"ibeam", ""}

====
